---- MODULE Spec2Model ----
(***************************************************************************)
(* Model of the lighthouse-global-tester scheduler core:                   *)
(*   - Database.getDomainsByCategory / getSmartBatch /                     *)
(*     calculateAdaptiveAllocation (src/database.js)                       *)
(*   - LighthouseRunner.runAudit (src/unnamed/part_010, the current        *)
(*     version of lighthouse-runner.js)                                    *)
(*                                                                         *)
(* Time is counted in hours: an age of 24 is one day.  A date column that  *)
(* is NULL in the SQL result is the age NoDate.                            *)
(***************************************************************************)
EXTENDS Integers, Sequences, FiniteSets, TLC

\* ------------------------------------------------------------------ bounds
MaxNever == 10      \* registry targets without any history
MaxTested == 2      \* registry targets with a history row
MaxBatch == 10      \* largest requested batchSize

\* ------------------------------------------------------------- generalities
NoDate == 0 - 1

Min(a, b) == IF a <= b THEN a ELSE b

Range(s) == {s[i] : i \in 1..Len(s)}

\* Array.prototype.slice(0, n) for n >= 0
Slice0(s, n) == SubSeq(s, 1, Min(n, Len(s)))

\* Array.prototype.filter
Filter(s, Test(_)) == SelectSeq(s, Test)

Reverse(s) == [i \in 1..Len(s) |-> s[Len(s) + 1 - i]]

Rotate(s, k) == [i \in 1..Len(s) |-> s[((i - 1 + k) % Len(s)) + 1]]

\* [...pool].sort(() => Math.random() - 0.5): some permutation of the pool.
\* The outcomes enumerated are the rotations of the pool and of its reverse:
\* every permutation for pools of up to three elements, and for larger pools
\* every cyclic window of the pool in both directions.
Shuffles(s) ==
  IF Len(s) = 0 THEN {s}
  ELSE {Rotate(s, k) : k \in 0..(Len(s) - 1)}
       \cup {Rotate(Reverse(s), k) : k \in 0..(Len(s) - 1)}

RECURSIVE SumOver(_, _)
SumOver(f, S) ==
  IF S = {} THEN 0
  ELSE LET x == CHOOSE y \in S : TRUE IN f[x] + SumOver(f, S \ {x})

\* ----------------------------------------------------------- the categories
CategoryOrder ==
  <<"never_tested", "reliable_success", "recent_mixed", "old_success", "failed_only">>

Categories == Range(CategoryOrder)

\* default value of the percentages parameter
DefaultPercentages ==
  [never_tested |-> 70, reliable_success |-> 10, recent_mixed |-> 10,
   old_success |-> 5, failed_only |-> 5]

\* ----------------------------------------------------------------- state
VARIABLES
  allDomains,     \* the registry: sequence of domain ids (domains.json, flattened)
  dbResults,      \* the history query's rows: tested domain id -> row
  batchSize,      \* getSmartBatch parameter
  percentages,    \* getSmartBatch parameter
  bpc,            \* "ready" | "categorized" | "selected"
  categorized,    \* value getDomainsByCategory resolved to (category -> entries)
  batch           \* value getSmartBatch resolved to

batchVars == <<allDomains, dbResults, batchSize, percentages, bpc, categorized, batch>>

\* state of one top-level LighthouseRunner.runAudit call
VARIABLES
  pc,             \* position of the innermost runAudit frame
  retryCount,     \* its retryCount parameter
  chrome,         \* its `chrome` local: NoChrome (null) or the child's pid
  chromeKilled,   \* its `chromeKilled` local
  isTimedOut,     \* its `isTimedOut` local
  timer,          \* its timeout timer: "unset" | "armed" | "fired" | "cleared" | "rejected"
  error,          \* the error caught by its catch clause
  result,         \* the value being returned
  stack,          \* suspended frames awaiting the recursive call (line 245)
  lighthouse,     \* this.lighthouse is loaded
  proc,           \* pid -> "none" | "alive" | "dead": the child processes
  attempts,       \* number of runAudit frames entered so far
  killLog,        \* attempt -> number of termination calls made on its child
  settledBy,      \* attempt -> what ended its try block
  delays          \* the retry delays slept, in order (ms)

runVars == <<pc, retryCount, chrome, chromeKilled, isTimedOut, timer, error, result,
             stack, lighthouse, proc, attempts, killLog, settledBy, delays>>

\* state of one program run: the module-level main() of global-tester.js and,
\* when smart-batch-tester.js is the entry point, its runSmartBatch call
VARIABLES
  program,        \* the command line: [kind, dryRun, index]
  task,           \* task -> its loop state (targets, position, results, tallies)
  auditLog,       \* the runAudit calls made, in order: [by, url, outcome]
  store           \* the rows written to the outcome store, in order: [url, table]

progVars == <<program, task, auditLog, store>>

\* the two asynchronous call chains of a program run
Tasks == {"main", "smart"}

NoProgram == [kind |-> "none", dryRun |-> FALSE, index |-> 0]

IdleTask ==
  [pc |-> "idle", method |-> "none", targets |-> <<>>, i |-> 0, results |-> <<>>,
   successCount |-> 0, failureCount |-> 0]

\* no program run is modelled
ProgIdle ==
  /\ program = NoProgram
  /\ task = [t \in Tasks |-> IdleTask]
  /\ auditLog = <<>>
  /\ store = <<>>

\* ------------------------------------------------------------- categorizer
HoursPerDay == 24

\* Math.floor(daysSinceFailure) for an age in hours
FloorDays(age) == age \div HoursPerDay

\* a cooldown that starts only a day after the failure
CooldownOfAfterFirstDay(row) ==
  IF row.last_failure_age = NoDate THEN 0
  ELSE IF row.last_failure_age < 1 * HoursPerDay THEN 0
  ELSE IF row.last_failure_age < 3 * HoursPerDay THEN 3 - FloorDays(row.last_failure_age)
  ELSE IF row.last_failure_age < 7 * HoursPerDay THEN 7 - FloorDays(row.last_failure_age)
  ELSE 0

\* cooldown computation of the categorize loop
CooldownOf(row) ==
  IF row.last_failure_age = NoDate THEN 0
  ELSE IF row.last_failure_age < 1 * HoursPerDay THEN 1
  ELSE IF row.last_failure_age < 3 * HoursPerDay THEN 3 - FloorDays(row.last_failure_age)
  ELSE IF row.last_failure_age < 7 * HoursPerDay THEN 7 - FloorDays(row.last_failure_age)
  ELSE 0

\* a rule chain ending in the SQL draft's ELSE 'unknown' for rows without success
CategoryOfUnknown(row) ==
  IF row.success_count >= 3 /\ row.last_success_age <= 7 * HoursPerDay
    THEN "reliable_success"
  ELSE IF row.success_count > 0 /\ row.last_success_age <= 14 * HoursPerDay
    THEN "recent_mixed"
  ELSE IF row.success_count > 0 THEN "old_success"
  ELSE "unknown"

\* the category rule chain; first match wins, falling through leaves the
\* initial value 'never_tested'
CategoryOf(row) ==
  LET lastSuccess == row.last_success_age # NoDate
      age == row.last_success_age
  IN IF row.success_count >= 3 /\ lastSuccess /\ age <= 7 * HoursPerDay
       THEN "reliable_success"
     ELSE IF row.success_count > 0 /\ lastSuccess /\ age <= 14 * HoursPerDay
       THEN "recent_mixed"
     ELSE IF row.success_count > 0 /\ lastSuccess /\ age > 14 * HoursPerDay
       THEN "old_success"
     ELSE IF row.success_count = 0 \/ ~lastSuccess \/ age > 30 * HoursPerDay
       THEN "failed_only"
     ELSE "never_tested"

\* one iteration of allDomains.forEach: the entry pushed for a domain
EntryOf(d, rows) ==
  IF d \in DOMAIN rows
    THEN [domain |-> d, category |-> CategoryOf(rows[d]),
          cooldownDaysRemaining |-> CooldownOf(rows[d])]
    ELSE [domain |-> d, category |-> "never_tested", cooldownDaysRemaining |-> 0]

\* the value getDomainsByCategory resolves to: each list holds, in registry
\* order, the entries pushed to it
CategorizeAll(domains, rows) ==
  LET entries == [i \in 1..Len(domains) |-> EntryOf(domains[i], rows)]
  IN [c \in Categories |-> LET InCat(e) == e.category = c IN Filter(entries, InCat)]

\* --------------------------------------------------------------- allocator
\* a filter that lets a one-day cooldown through
NoCooldownBeyondADay(e) == e.cooldownDaysRemaining <= 1

\* d => d.cooldownDaysRemaining === 0
NoCooldown(e) == e.cooldownDaysRemaining = 0

\* no cooldown filter at all
AvailableOfUnfiltered(cat) == cat

\* the cooldown filter of getSmartBatch (never_tested is taken unfiltered)
AvailableOf(cat) ==
  [c \in Categories |->
     IF c = "never_tested" THEN cat[c] ELSE Filter(cat[c], NoCooldown)]

\* the percentage taken as a plain count
RequestedCountUnscaled(percentage, size) == percentage * size

\* Math.floor((percentage / 100) * batchSize)
RequestedCount(percentage, size) == (percentage * size) \div 100

\* first loop of calculateAdaptiveAllocation
InitialAllocation(avail, size, pct) ==
  [c \in Categories |-> Min(RequestedCount(pct[c], size), Len(avail[c]))]

\* the redistribution loop from position i of priorityOrder on; `remaining`
\* is a const in the source and keeps its value through the loop
RECURSIVE Redistribute(_, _, _, _)
Redistribute(i, alloc, avail, remaining) ==
  IF i > Len(CategoryOrder) \/ remaining <= 0 THEN alloc
  ELSE LET c == CategoryOrder[i]
           available == Len(avail[c]) - alloc[c]
           canAdd == Min(remaining, available)
       IN Redistribute(i + 1, [alloc EXCEPT ![c] = alloc[c] + canAdd], avail, remaining)

CalculateAdaptiveAllocation(avail, size, pct) ==
  LET allocation == InitialAllocation(avail, size, pct)
      totalAllocated == SumOver(allocation, Categories)
      remaining == size - totalAllocated
  IN IF remaining > 0 THEN Redistribute(1, allocation, avail, remaining)
     ELSE allocation

\* the per-category draw: shuffled.slice(0, count), shuffled being sh[c]
RECURSIVE DrawFrom(_, _, _, _)
DrawFrom(i, allocation, avail, sh) ==
  IF i > Len(CategoryOrder) THEN <<>>
  ELSE LET c == CategoryOrder[i]
           drawn == IF allocation[c] > 0 /\ Len(avail[c]) > 0
                      THEN Slice0(sh[c], allocation[c])
                      ELSE <<>>
       IN drawn \o DrawFrom(i + 1, allocation, avail, sh)

\* Object.values(availableDomains).flat()
AllAvailable(avail) ==
  avail["never_tested"] \o avail["reliable_success"] \o avail["recent_mixed"]
    \o avail["old_success"] \o avail["failed_only"]

\* a fill step that forgets which domains are already selected
UnusedUnfiltered(avail, selected) == AllAvailable(avail)

\* allAvailable.filter(d => !usedDomains.has(d.domain))
Unused(avail, selected) ==
  LET usedDomains == {selected[i].domain : i \in 1..Len(selected)}
      NotUsed(e) == e.domain \notin usedDomains
  IN Filter(AllAvailable(avail), NotUsed)

\* the fill step: shuffledUnused is the shuffle of the unused entries
FillStep(selected, size, shuffledUnused) ==
  IF Len(selected) < size /\ Len(shuffledUnused) > 0
    THEN selected \o Slice0(shuffledUnused, size - Len(selected))
    ELSE selected

\* a result without the final slice
SliceToBatchMissing(selected, size) == selected

\* selectedDomains.slice(0, batchSize)
SliceToBatch(selected, size) == Slice0(selected, size)

CountsOf(lists) == [c \in Categories |-> Len(lists[c])]

InCooldown(e) == e.cooldownDaysRemaining > 0

\* ------------------------------------------------- runAudit: values it handles
maxRetries == 2
retryDelay == 3000
MaxMessageLength == 100

NoChrome == 0

ScoreNames == {"performance", "accessibility", "bestPractices", "seo", "pwa"}

\* retryableErrors
RetryableErrors ==
  {"TargetCloseError", "Protocol error", "Session closed", "Connection refused",
   "timeout", "Navigation timeout", "Page crashed", "Target closed",
   "WebSocket is not open", "net::ERR_", "net::", "ERR_CONNECTION", "ERR_TIMED_OUT",
   "ERR_NETWORK_CHANGED", "ECONNREFUSED", "ENOTFOUND", "ETIMEDOUT"}

\* An Error object: `includes` is the set of vocabulary strings that occur in
\* its message, `len` the length of the message, `name` its name (also the
\* name of its constructor).
ErrorValue(text, includes, name, len) ==
  [text |-> text, includes |-> includes, name |-> name, len |-> len]

NoError == ErrorValue("", {}, "", 0)

\* new Error(`Lighthouse audit timeout after ${this.auditTimeout}ms`)
TimeoutError == ErrorValue("Lighthouse audit timeout after 60000ms", {"timeout"}, "Error", 38)

\* new Error('Invalid Lighthouse result - missing categories data')
InvalidResultError ==
  ErrorValue("Invalid Lighthouse result - missing categories data", {}, "Error", 51)

\* errors the lighthouse(url, options) call rejects with
AuditErrors ==
  { ErrorValue("Protocol error (Target.attachToTarget): Target closed",
               {"Protocol error", "Target closed"}, "TargetCloseError", 53),
    ErrorValue("Protocol error (Runtime.evaluate): Session closed",
               {"Protocol error", "Session closed"}, "ProtocolError", 49),
    ErrorValue("net::ERR_CONNECTION_REFUSED", {"net::ERR_", "net::", "ERR_CONNECTION"},
               "Error", 27),
    ErrorValue("Navigation timeout of 30000 ms exceeded",
               {"timeout", "Navigation timeout"}, "Error", 39),
    ErrorValue("PROTOCOL_TIMEOUT ... (250 characters)", {}, "LighthouseError", 250),
    ErrorValue("Protocol error ... (101 characters)", {"Protocol error"}, "Error", 101),
    ErrorValue("NO_FCP ... (100 characters)", {}, "LighthouseError", 100) }

\* errors chromeLauncher.launch rejects with
LaunchErrors ==
  { ErrorValue("connect ECONNREFUSED 127.0.0.1:9222", {"ECONNREFUSED"}, "Error", 35),
    ErrorValue("No Chrome installations found.", {}, "ChromeNotInstalledError", 30) }

\* error of the dynamic import('lighthouse')
ImportError == ErrorValue("Cannot find package 'lighthouse'", {}, "Error", 32)

\* category score of a result, in thousandths; NoScore is a null score
NoScore == 0 - 1

LhrCategory(name) ==
  CASE name = "performance" -> "performance"
    [] name = "accessibility" -> "accessibility"
    [] name = "bestPractices" -> "best-practices"
    [] name = "seo" -> "seo"
    [] name = "pwa" -> "pwa"

\* values the lighthouse call resolves to: `categories` maps the category
\* ids present in lhr.categories to their score
AuditResults ==
  { [lhr |-> TRUE, hasCategories |-> TRUE,
     categories |-> [performance |-> 925, accessibility |-> 1000, seo |-> 994,
                     pwa |-> 300] @@ ("best-practices" :> 834)],
    [lhr |-> TRUE, hasCategories |-> TRUE,
     categories |-> [performance |-> NoScore, accessibility |-> 4, seo |-> 500]
                     @@ ("best-practices" :> 1000)],
    [lhr |-> TRUE, hasCategories |-> TRUE,
     categories |-> [performance |-> 0, accessibility |-> 0, seo |-> NoScore]],
    [lhr |-> TRUE, hasCategories |-> FALSE, categories |-> <<>>],
    [lhr |-> FALSE, hasCategories |-> FALSE, categories |-> <<>>] }

\* !runnerResult || !runnerResult.lhr || !runnerResult.lhr.categories
InvalidResult(r) == ~r.lhr \/ ~r.hasCategories

\* Math.round(score * 100) for a score in thousandths
RoundPercent(t) == (t + 5) \div 10

\* categories.x?.score ? Math.round(categories.x.score * 100) : 0
ScoreOf(r, name) ==
  IF LhrCategory(name) \in DOMAIN r.categories
       /\ r.categories[LhrCategory(name)] # NoScore
       /\ r.categories[LhrCategory(name)] # 0
    THEN RoundPercent(r.categories[LhrCategory(name)])
    ELSE 0

\* the `scores` object returned on success
ScoresOf(r) == [n \in ScoreNames |-> ScoreOf(r, n)]

\* a message kept whole
TruncateMissing(e) == [text |-> e.text, len |-> e.len]

\* error.message.substring(0, 100)
Truncate(e) == [text |-> e.text, len |-> Min(e.len, MaxMessageLength)]

\* the terminal failure object
FailureResult(e) ==
  [n \in ScoreNames |-> 0] @@ [error |-> TRUE, errorMessage |-> Truncate(e)]

\* a vocabulary that misses the timeout entry
IsRetryableWithoutTimeout(e) ==
  \/ \E errorType \in RetryableErrors \ {"timeout"} : errorType \in e.includes
  \/ e.name = "TargetCloseError"

\* retryableErrors.some(...): message, name, constructor name or stack match
IsRetryable(e) ==
  \/ \E errorType \in RetryableErrors :
       errorType \in e.includes \/ e.name = errorType
  \/ e.name = "TargetCloseError"

\* delayTime of the retry branch
DelayTime(e) ==
  LET first == IF "TargetCloseError" \in e.includes \/ "Target closed" \in e.includes
                 THEN retryDelay * 3
               ELSE IF "timeout" \in e.includes THEN retryDelay * 2
               ELSE retryDelay
  IN IF "ERR_CONNECTION" \in e.includes \/ "ECONNREFUSED" \in e.includes
       THEN retryDelay * 4
       ELSE first

NoResult == [none |-> TRUE]

Attempts == 1..(maxRetries + 1)

\* ------------------------------------------------ runAudit: child processes
KillOutcomes == {"ok", "throws"}

\* chrome.kill(): it succeeds and the child is gone, or it throws and leaves
\* the child as it was
AfterKill(procs, pid, outcome) ==
  IF outcome = "ok" THEN [procs EXCEPT ![pid] = "dead"] ELSE procs

\* process.kill(pid, 'SIGKILL') / process.kill(pid, 'SIGTERM'): a live child
\* ends; for a dead one the call throws and the throw is swallowed
AfterSignal(procs, pid) == [procs EXCEPT ![pid] = "dead"]

\* a cleanup that stops at the throw of chrome.kill()
AfterKillWithoutForce(procs, pid, outcome) == AfterKill(procs, pid, outcome)

\* chrome.kill() followed, when it throws, by process.kill(chrome.pid, 'SIGKILL')
AfterKillOrForce(procs, pid, outcome) ==
  IF outcome = "ok" THEN AfterKill(procs, pid, outcome) ELSE AfterSignal(procs, pid)

\* termination calls made by chrome.kill() with the SIGKILL fallback
CallsOfKillOrForce(outcome) == IF outcome = "ok" THEN 1 ELSE 2

Frame == [retryCount |-> retryCount, chrome |-> chrome, chromeKilled |-> chromeKilled,
          isTimedOut |-> isTimedOut, timer |-> timer]

\* ------------------------------------------------------ runAudit: the steps
RunIdle ==
  /\ pc = "idle"
  /\ retryCount = 0
  /\ chrome = NoChrome
  /\ chromeKilled = FALSE
  /\ isTimedOut = FALSE
  /\ timer = "unset"
  /\ error = NoError
  /\ result = NoResult
  /\ stack = <<>>
  /\ lighthouse \in BOOLEAN
  /\ proc = [p \in Attempts |-> "none"]
  /\ attempts = 0
  /\ killLog = [k \in Attempts |-> 0]
  /\ settledBy = [k \in Attempts |-> "none"]
  /\ delays = <<>>

\* runner.runAudit(url): entry of the top-level call
RunAudit ==
  /\ pc = "idle"
  /\ pc' = "launch"
  /\ attempts' = 1
  /\ UNCHANGED <<retryCount, chrome, chromeKilled, isTimedOut, timer, error, result,
                 stack, lighthouse, proc, killLog, settledBy, delays>>
  /\ UNCHANGED batchVars
  /\ UNCHANGED progVars

\* chrome = await chromeLauncher.launch(...)
LaunchOk ==
  /\ pc = "launch"
  /\ chrome' = attempts
  /\ proc' = [proc EXCEPT ![attempts] = "alive"]
  /\ pc' = "init"
  /\ UNCHANGED <<retryCount, chromeKilled, isTimedOut, timer, error, result, stack,
                 lighthouse, attempts, killLog, settledBy, delays>>
  /\ UNCHANGED batchVars
  /\ UNCHANGED progVars

\* chromeLauncher.launch rejects: control passes to the catch clause
LaunchFails ==
  /\ pc = "launch"
  /\ \E e \in LaunchErrors : error' = e
  /\ settledBy' = [settledBy EXCEPT ![attempts] = "launch"]
  /\ pc' = "catch"
  /\ UNCHANGED <<retryCount, chrome, chromeKilled, isTimedOut, timer, result, stack,
                 lighthouse, proc, attempts, killLog, delays>>
  /\ UNCHANGED batchVars
  /\ UNCHANGED progVars

\* await this._initLighthouse(), then the timer is set and the race awaited
InitLighthouseOk ==
  /\ pc = "init"
  /\ lighthouse' = TRUE
  /\ timer' = "armed"
  /\ pc' = "race"
  /\ UNCHANGED <<retryCount, chrome, chromeKilled, isTimedOut, error, result, stack,
                 proc, attempts, killLog, settledBy, delays>>
  /\ UNCHANGED batchVars
  /\ UNCHANGED progVars

\* the dynamic import fails (only while this.lighthouse is not yet set)
InitLighthouseFails ==
  /\ pc = "init"
  /\ ~lighthouse
  /\ error' = ImportError
  /\ settledBy' = [settledBy EXCEPT ![attempts] = "init"]
  /\ pc' = "catch"
  /\ UNCHANGED <<retryCount, chrome, chromeKilled, isTimedOut, timer, result, stack,
                 lighthouse, proc, attempts, killLog, delays>>
  /\ UNCHANGED batchVars
  /\ UNCHANGED progVars

\* the child process ends by itself while the audit runs
ChromeExits ==
  /\ pc = "race"
  /\ proc[chrome] = "alive"
  /\ proc' = [proc EXCEPT ![chrome] = "dead"]
  /\ UNCHANGED <<pc, retryCount, chrome, chromeKilled, isTimedOut, timer, error, result,
                 stack, lighthouse, attempts, killLog, settledBy, delays>>
  /\ UNCHANGED batchVars
  /\ UNCHANGED progVars

\* a timeout callback that only marks the timeout
TimerFiresWithoutKill ==
  /\ pc = "race"
  /\ timer = "armed"
  /\ isTimedOut' = TRUE
  /\ timer' = "fired"
  /\ UNCHANGED <<pc, retryCount, chrome, chromeKilled, error, result, stack, lighthouse,
                 proc, attempts, killLog, settledBy, delays>>
  /\ UNCHANGED batchVars
  /\ UNCHANGED progVars

\* the setTimeout(auditTimeout) callback: graceful kill, SIGKILL if it throws,
\* then the 2 s timer that rejects
TimerFires ==
  /\ pc = "race"
  /\ timer = "armed"
  /\ isTimedOut' = TRUE
  /\ IF chrome # NoChrome /\ ~chromeKilled
       THEN /\ chromeKilled' = TRUE
            /\ \E outcome \in KillOutcomes :
                 /\ proc' = AfterKillOrForce(proc, chrome, outcome)
                 /\ killLog' = [killLog EXCEPT ![attempts] = @ + CallsOfKillOrForce(outcome)]
       ELSE UNCHANGED <<chromeKilled, proc, killLog>>
  /\ timer' = "fired"
  /\ UNCHANGED <<pc, retryCount, chrome, error, result, stack, lighthouse, attempts,
                 settledBy, delays>>
  /\ UNCHANGED batchVars
  /\ UNCHANGED progVars

\* the 2 s timer: reject(new Error('Lighthouse audit timeout ...')) settles the race
TimerRejects ==
  /\ pc = "race"
  /\ timer = "fired"
  /\ timer' = "rejected"
  /\ error' = TimeoutError
  /\ settledBy' = [settledBy EXCEPT ![attempts] = "timeout"]
  /\ pc' = "raceCatch"
  /\ UNCHANGED <<retryCount, chrome, chromeKilled, isTimedOut, result, stack, lighthouse,
                 proc, attempts, killLog, delays>>
  /\ UNCHANGED batchVars
  /\ UNCHANGED progVars

\* clearTimeout(timeoutId): it stops the timer only while it has not fired
ClearTimeout(t) == IF t = "armed" THEN "cleared" ELSE t

\* lighthouse(url, options) resolves first: the result is checked and the
\* scores returned, or the invalid-result error thrown
AuditResolves ==
  /\ pc = "race"
  /\ timer' = ClearTimeout(timer)
  /\ settledBy' = [settledBy EXCEPT ![attempts] = "audit"]
  /\ \E r \in AuditResults :
       IF InvalidResult(r)
         THEN /\ error' = InvalidResultError
              /\ pc' = "catch"
              /\ UNCHANGED result
         ELSE /\ result' = ScoresOf(r)
              /\ pc' = "finally"
              /\ UNCHANGED error
  /\ UNCHANGED <<retryCount, chrome, chromeKilled, isTimedOut, stack, lighthouse, proc,
                 attempts, killLog, delays>>
  /\ UNCHANGED batchVars
  /\ UNCHANGED progVars

\* lighthouse(url, options) rejects first
AuditRejects ==
  /\ pc = "race"
  /\ timer' = ClearTimeout(timer)
  /\ settledBy' = [settledBy EXCEPT ![attempts] = "audit"]
  /\ \E e \in AuditErrors : error' = e
  /\ pc' = "raceCatch"
  /\ UNCHANGED <<retryCount, chrome, chromeKilled, isTimedOut, result, stack, lighthouse,
                 proc, attempts, killLog, delays>>
  /\ UNCHANGED batchVars
  /\ UNCHANGED progVars

\* catch (raceError): kill Chrome unless the timeout did, then rethrow
RaceCatch ==
  /\ pc = "raceCatch"
  /\ IF ~chromeKilled /\ chrome # NoChrome
       THEN /\ chromeKilled' = TRUE
            /\ \E outcome \in KillOutcomes : proc' = AfterKill(proc, chrome, outcome)
            /\ killLog' = [killLog EXCEPT ![attempts] = @ + 1]
       ELSE UNCHANGED <<chromeKilled, proc, killLog>>
  /\ pc' = "catch"
  /\ UNCHANGED <<retryCount, chrome, isTimedOut, timer, error, result, stack, lighthouse,
                 attempts, settledBy, delays>>
  /\ UNCHANGED batchVars
  /\ UNCHANGED progVars

\* catch (error): 1 s pause, chrome.kill(), SIGKILL if it throws, chrome = null
CatchCleanup ==
  /\ pc = "catch"
  /\ IF chrome # NoChrome
       THEN /\ \E outcome \in KillOutcomes :
                 /\ proc' = AfterKillOrForce(proc, chrome, outcome)
                 /\ killLog' = [killLog EXCEPT ![attempts] = @ + CallsOfKillOrForce(outcome)]
            /\ chrome' = NoChrome
       ELSE UNCHANGED <<chrome, proc, killLog>>
  /\ pc' = "decide"
  /\ UNCHANGED <<retryCount, chromeKilled, isTimedOut, timer, error, result, stack,
                 lighthouse, attempts, settledBy, delays>>
  /\ UNCHANGED batchVars
  /\ UNCHANGED progVars

\* a retry test that admits one attempt more
ShouldRetryOnceMore(count, e) == count <= maxRetries /\ IsRetryable(e)

\* retryCount < this.maxRetries && isRetryable
ShouldRetry(count, e) == count < maxRetries /\ IsRetryable(e)

\* a retry branch that recurses at once
RetryWithoutDelay ==
  /\ pc = "decide"
  /\ ShouldRetry(retryCount, error)
  /\ stack' = Append(stack, Frame)
  /\ retryCount' = retryCount + 1
  /\ attempts' = attempts + 1
  /\ chrome' = NoChrome
  /\ chromeKilled' = FALSE
  /\ isTimedOut' = FALSE
  /\ timer' = "unset"
  /\ error' = NoError
  /\ pc' = "launch"
  /\ UNCHANGED <<result, lighthouse, proc, killLog, settledBy, delays>>
  /\ UNCHANGED batchVars
  /\ UNCHANGED progVars

\* the retry branch: sleep delayTime, then the recursive runAudit(url, retryCount + 1)
Retry ==
  /\ pc = "decide"
  /\ ShouldRetry(retryCount, error)
  /\ delays' = Append(delays, DelayTime(error))
  /\ stack' = Append(stack, Frame)
  /\ retryCount' = retryCount + 1
  /\ attempts' = attempts + 1
  /\ chrome' = NoChrome
  /\ chromeKilled' = FALSE
  /\ isTimedOut' = FALSE
  /\ timer' = "unset"
  /\ error' = NoError
  /\ pc' = "launch"
  /\ UNCHANGED <<result, lighthouse, proc, killLog, settledBy>>
  /\ UNCHANGED batchVars
  /\ UNCHANGED progVars

\* the final failure: zeros, error flag and truncated message are returned
FinalFailure ==
  /\ pc = "decide"
  /\ ~ShouldRetry(retryCount, error)
  /\ result' = FailureResult(error)
  /\ pc' = "finally"
  /\ UNCHANGED <<retryCount, chrome, chromeKilled, isTimedOut, timer, error, stack,
                 lighthouse, proc, attempts, killLog, settledBy, delays>>
  /\ UNCHANGED batchVars
  /\ UNCHANGED progVars

\* the finally block: when Chrome is set and not marked killed and the
\* process exists, chrome.kill() is called; a throw of the existence test or
\* of chrome.kill() lands in the inner catch, which only logs.  On the first
\* frame a 1 s sleep follows.  The frame then returns to its caller.
FinallyReturn ==
  /\ pc = "finally"
  /\ IF chrome # NoChrome /\ ~chromeKilled /\ proc[chrome] = "alive"
       THEN /\ \E outcome \in KillOutcomes : proc' = AfterKill(proc, chrome, outcome)
            /\ killLog' = [killLog EXCEPT ![chrome] = @ + 1]
       ELSE UNCHANGED <<proc, killLog>>
  /\ IF stack = <<>>
       THEN /\ pc' = "done"
            /\ chromeKilled' =
                 (chromeKilled \/ (chrome # NoChrome /\ proc[chrome] = "alive"))
            /\ UNCHANGED <<retryCount, chrome, isTimedOut, timer, stack>>
       ELSE /\ pc' = "finally"
            /\ retryCount' = stack[Len(stack)].retryCount
            /\ chrome' = stack[Len(stack)].chrome
            /\ chromeKilled' = stack[Len(stack)].chromeKilled
            /\ isTimedOut' = stack[Len(stack)].isTimedOut
            /\ timer' = stack[Len(stack)].timer
            /\ stack' = SubSeq(stack, 1, Len(stack) - 1)
  /\ UNCHANGED <<error, result, lighthouse, attempts, settledBy, delays>>
  /\ UNCHANGED batchVars
  /\ UNCHANGED progVars

\* ------------------------------------------------------ inputs of the batch
\* Rows the history query can return for a tested domain.  success_count > 0
\* exactly when a success date exists (both come from the same score rows).
RowValues ==
  { [success_count |-> 3, last_success_age |-> 48,  last_failure_age |-> NoDate],
    [success_count |-> 3, last_success_age |-> 48,  last_failure_age |-> 12],
    [success_count |-> 1, last_success_age |-> 48,  last_failure_age |-> 30],
    [success_count |-> 3, last_success_age |-> 240, last_failure_age |-> NoDate],
    [success_count |-> 1, last_success_age |-> 480, last_failure_age |-> 200],
    [success_count |-> 2, last_success_age |-> 960, last_failure_age |-> 100],
    [success_count |-> 0, last_success_age |-> NoDate, last_failure_age |-> 12],
    [success_count |-> 0, last_success_age |-> NoDate, last_failure_age |-> 168],
    [success_count |-> 0, last_success_age |-> NoDate, last_failure_age |-> 200],
    [success_count |-> 0, last_success_age |-> NoDate, last_failure_age |-> NoDate] }

BatchSizes == {b \in 1..MaxBatch : b <= 3 \/ b % 5 = 0}

PercentageValues ==
  { DefaultPercentages,
    [never_tested |-> 40, reliable_success |-> 30, recent_mixed |-> 20,
     old_success |-> 10, failed_only |-> 0],
    [never_tested |-> 100, reliable_success |-> 100, recent_mixed |-> 100,
     old_success |-> 100, failed_only |-> 100] }

EmptyLists == [c \in Categories |-> <<>>]

\* the history query failed: its callback got `err` and no rows
Unreadable == [j \in {0} |-> "SQLITE_ERROR"]

NoBatch ==
  [selectedDomains |-> <<>>, allocation |-> [c \in Categories |-> 0],
   availableCounts |-> [c \in Categories |-> 0],
   cooldownCounts |-> [c \in Categories |-> 0]]

\* The registry lists each domain once (a Target's identity is its domain):
\* ids 1..n are the domains without history, the following ones have a row.
\* Registries with many untested domains carry at most one tested domain.
InitBatch ==
  /\ \E n \in 0..MaxNever, t \in 0..MaxTested :
       /\ n <= MaxTested + 1 \/ t <= 1
       /\ allDomains = [i \in 1..(n + t) |-> i]
       /\ \/ dbResults \in [(n + 1)..(n + t) -> RowValues]
          \/ t = 0 /\ dbResults = Unreadable
  /\ batchSize \in BatchSizes
  /\ percentages \in PercentageValues
  /\ bpc = "ready"
  /\ categorized = EmptyLists
  /\ batch = NoBatch
  /\ RunIdle
  /\ lighthouse = FALSE
  /\ ProgIdle

\* ---------------------------------------------------------------- actions
\* Database.getDomainsByCategory()
GetDomainsByCategory ==
  /\ bpc = "ready"
  /\ IF dbResults = Unreadable
       THEN /\ bpc' = "rejected"
            /\ UNCHANGED categorized
       ELSE /\ categorized' = CategorizeAll(allDomains, dbResults)
            /\ bpc' = "categorized"
  /\ UNCHANGED <<allDomains, dbResults, batchSize, percentages, batch>>
  /\ UNCHANGED runVars
  /\ UNCHANGED progVars

\* the outcomes of shuffling a pool and keeping the first n entries
Draws(pool, n) == {Slice0(s, n) : s \in Shuffles(pool)}

\* Database.getSmartBatch(batchSize, percentages); it calls
\* getDomainsByCategory itself and rejects when that call rejects
GetSmartBatch ==
  /\ bpc = "ready"
  /\ \/ /\ dbResults = Unreadable
        /\ bpc' = "rejected"
        /\ UNCHANGED <<categorized, batch>>
     \/ /\ dbResults # Unreadable
        /\ bpc' = "selected"
        /\ \E categorizedDomains \in {CategorizeAll(allDomains, dbResults)} :
           \E availableDomains \in {AvailableOf(categorizedDomains)} :
           \E allocation \in {CalculateAdaptiveAllocation(availableDomains, batchSize, percentages)} :
           \E s1 \in Draws(availableDomains["never_tested"], allocation["never_tested"]),
              s2 \in Draws(availableDomains["reliable_success"], allocation["reliable_success"]),
              s3 \in Draws(availableDomains["recent_mixed"], allocation["recent_mixed"]),
              s4 \in Draws(availableDomains["old_success"], allocation["old_success"]),
              s5 \in Draws(availableDomains["failed_only"], allocation["failed_only"]) :
           \E sh \in {[never_tested |-> s1, reliable_success |-> s2, recent_mixed |-> s3,
                       old_success |-> s4, failed_only |-> s5]} :
           \E drawn \in {DrawFrom(1, allocation, availableDomains, sh)} :
           \E su \in Shuffles(Unused(availableDomains, drawn)) :
             /\ batch' =
                  [selectedDomains |-> SliceToBatch(FillStep(drawn, batchSize, su), batchSize),
                   allocation |-> allocation,
                   availableCounts |-> CountsOf(availableDomains),
                   cooldownCounts |->
                     CountsOf([c \in Categories |-> Filter(categorizedDomains[c], InCooldown)])]
             /\ categorized' = categorizedDomains
  /\ UNCHANGED <<allDomains, dbResults, batchSize, percentages>>
  /\ UNCHANGED runVars
  /\ UNCHANGED progVars

\* ------------------------------------------------------- the program runs
\* registry sizes of the runs: the smart batch runs over a registry of up to
\* MaxRegistry domains, the daily and hourly batches also over MaxDailyRegistry
MaxRegistry == 2

MaxDailyRegistry == 8

MaxRunBatch == 2

DaysPerWeek == 7

HourlyBatches == 84

\* a division that rounds down
FloorDiv(a, b) == a \div b

\* Math.ceil(a / b)
CeilDiv(a, b) == (a + b - 1) \div b

\* a sorted list with x put at its place
Insert(x, s) ==
  LET k == Cardinality({j \in 1..Len(s) : s[j] < x})
  IN SubSeq(s, 1, k) \o <<x>> \o SubSeq(s, k + 1, Len(s))

RECURSIVE SortByDomain(_)
\* allDomains.sort((a, b) => a.domain.localeCompare(b.domain))
SortByDomain(s) == IF s = <<>> THEN s ELSE Insert(Head(s), SortByDomain(Tail(s)))

\* Array.prototype.slice(start, end) for 0 <= start
Slice(s, start, end) == SubSeq(s, start + 1, Min(end, Len(s)))

\* testDailyBatch: the slice of the sorted registry tested on dayOfWeek
TodaysDomains(all, dayOfWeek) ==
  LET totalDomains == Len(all)
      size == CeilDiv(totalDomains, DaysPerWeek)
      startIndex == dayOfWeek * size
      endIndex == Min(startIndex + size, totalDomains)
  IN Slice(SortByDomain(all), startIndex, endIndex)

\* testHourlyBatch: the slice of the sorted registry tested in batch batchIndex
BatchDomains(all, batchIndex) ==
  LET totalDomains == Len(all)
      size == CeilDiv(totalDomains, HourlyBatches)
      startIndex == batchIndex * size
      endIndex == Min(startIndex + size, totalDomains)
  IN IF startIndex >= totalDomains THEN <<>>
     ELSE Slice(SortByDomain(all), startIndex, endIndex)

\* the methods of class GlobalLighthouseTester
TesterMethods ==
  { "loadDomains", "testWebsite", "testDailyBatch", "testHourlyBatch", "testAllWebsites",
    "testCountry", "testTop20Untested", "showResultsByCountry", "showGlobalSummary",
    "scheduleWeeklyTests", "getAvailableCountries", "runNow" }

\* a batch loop whose per-target call names the method the class defines
CalledBySmartBatchDefined == "testWebsite"

\* the method runSmartBatch calls on this.tester for each selected domain
CalledBySmartBatch == "testDomain"

\* the method the loops of global-tester.js call for each domain
CalledByTester == "testWebsite"

\* calling a property that is not a function throws this TypeError
NotAFunction ==
  ErrorValue("this.tester.testDomain is not a function", {}, "TypeError", 40)

\* an INSERT rejected by the store
StoreError == ErrorValue("SQLITE_BUSY: database is locked", {}, "Error", 31)

\* values a runAudit call resolves to: rounded scores (the sets taken are
\* the one without a zero and the one of five zeros) or the failure object
AuditOutcomes ==
  {s \in {ScoresOf(r) : r \in {a \in AuditResults : ~InvalidResult(a)}} :
     (\A n \in ScoreNames : s[n] = 0) \/ (\A n \in ScoreNames : s[n] > 0)}
    \cup {FailureResult(TimeoutError)}

\* scores.error
HasError(scores) == "error" \in DOMAIN scores /\ scores.error

\* result.failed (undefined on the object built from the scores)
Failed(r) == "failed" \in DOMAIN r /\ r.failed

\* the failed result object of testWebsite
FailedRecord(d, message) ==
  [n \in ScoreNames |-> 0] @@ [url |-> d, failed |-> TRUE, errorMessage |-> message]

\* { url: domain, country, industry, ...scores }
SuccessRecord(d, scores) == [url |-> d] @@ scores

\* the record the catch clause of the smart batch loop drops
NoErrorRecord(res, d, e) == res

\* the record the catch clause of the smart batch loop pushes
ErrorRecord(res, d, e) ==
  Append(res, [url |-> d, failed |-> TRUE,
               errorMessage |-> [text |-> e.text, len |-> e.len]])

\* saveFailedTest(url): the row inserted
FailedRow(d) == [url |-> d, table |-> "lighthouse_failed_tests"]

\* saveScore(url, ...): all five scores 0 is recorded as a failed test
SaveScoreRow(d, scores) ==
  IF \A n \in ScoreNames : scores[n] = 0
    THEN FailedRow(d)
    ELSE [url |-> d, table |-> "lighthouse_scores"]

\* outcomes of the store writes of one testWebsite call: the first write,
\* and the saveFailedTest of the catch clause
WriteOutcomes == {<<TRUE, TRUE>>, <<FALSE, TRUE>>, <<FALSE, FALSE>>}

\* testWebsite(domain, ...) once runAudit has resolved to `scores`: the
\* object returned and the rows written
TestWebsite(d, scores, writes) ==
  IF writes[1]
    THEN [result |-> IF HasError(scores)
                       THEN FailedRecord(d, scores.errorMessage)
                       ELSE SuccessRecord(d, scores),
          rows |-> IF HasError(scores)
                     THEN <<FailedRow(d)>>
                     ELSE <<SaveScoreRow(d, scores)>>]
    ELSE [result |-> FailedRecord(d, Truncate(StoreError)),
          rows |-> IF writes[2] THEN <<FailedRow(d)>> ELSE <<>>]

\* no scores yet: the call is in flight
Pending == [none |-> TRUE]

\* index in auditLog of the latest runAudit call made by task t
LastCallOf(t) ==
  CHOOSE j \in 1..Len(auditLog) :
    /\ auditLog[j].by = t
    /\ \A k \in (j + 1)..Len(auditLog) : auditLog[k].by # t

\* command lines: `node smart-batch-tester.js [--dry-run | --preview]`,
\* `node global-tester.js --daily-batch d`, `node global-tester.js --hourly-batch b`
HourlyIndexes == {0, 1, HourlyBatches - 1}

Programs ==
  {[kind |-> "smart", dryRun |-> dry, index |-> 0] : dry \in BOOLEAN}
    \cup {[kind |-> "preview", dryRun |-> FALSE, index |-> 0]}
    \cup {[kind |-> "daily", dryRun |-> FALSE, index |-> d] : d \in 0..(DaysPerWeek - 1)}
    \cup {[kind |-> "hourly", dryRun |-> FALSE, index |-> b] : b \in HourlyIndexes}

\* the programs whose entry point is smart-batch-tester.js
SmartEntry == {"smart", "preview"}

StartTask == [IdleTask EXCEPT !.pc = "start"]

\* history rows of a run: a healthy domain, one in cooldown, one that only failed
RunRowValues ==
  {r \in RowValues :
     \/ r.success_count = 3 /\ r.last_success_age = 48
     \/ r.success_count = 0 /\ r.last_failure_age = 200}

\* registries of a run: the ids in file order (ascending or descending)
RegistryOrders(size) ==
  {[j \in 1..size |-> j], Reverse([j \in 1..size |-> j])}

\* A program has been started: the registry and the history are as they
\* are on disk, main() of global-tester.js is about to run (it runs when the
\* module is loaded, also when smart-batch-tester.js requires it), and for
\* the smart batch program runSmartBatch is about to be called.
InitRun ==
  /\ program \in Programs
  /\ \E n \in 0..MaxDailyRegistry, t \in 0..1 :
       /\ IF program.kind \in SmartEntry
            THEN n + t <= MaxRegistry
            ELSE t = 0 /\ (n <= MaxRegistry \/ n = MaxDailyRegistry
                             \/ program.kind = "daily")
       /\ allDomains \in RegistryOrders(n + t)
       /\ \/ dbResults \in [(n + 1)..(n + t) -> RunRowValues]
          \/ program.kind \in SmartEntry /\ t = 0 /\ dbResults = Unreadable
  /\ batchSize \in 1..MaxRunBatch
  /\ program.kind \notin SmartEntry => batchSize = 1
  /\ percentages = DefaultPercentages
  /\ bpc = "ready"
  /\ categorized = EmptyLists
  /\ batch = NoBatch
  /\ RunIdle
  /\ lighthouse = FALSE
  /\ task = [t \in Tasks |->
               IF t = "main" \/ program.kind \in SmartEntry THEN StartTask ELSE IdleTask]
  /\ auditLog = <<>>
  /\ store = <<>>

\* the domains main() of global-tester.js goes through: the daily or hourly
\* slice, or, for any other command line, runNow() -> testAllWebsites()
MainTargets ==
  CASE program.kind = "daily" -> TodaysDomains(allDomains, program.index)
    [] program.kind = "hourly" -> BatchDomains(allDomains, program.index)
    [] OTHER -> allDomains

\* main() of global-tester.js, up to the first iteration of its loop
MainStarts ==
  /\ task["main"].pc = "start"
  /\ task' = [task EXCEPT !["main"] =
                [@ EXCEPT !.pc = "loop", !.method = CalledByTester,
                          !.targets = MainTargets]]
  /\ UNCHANGED <<program, auditLog, store>>
  /\ UNCHANGED batchVars
  /\ UNCHANGED runVars

\* runSmartBatch: await this.db.getSmartBatch(batchSize, percentages); the
\* required module's main() has run up to its first await by then
AwaitGetSmartBatch ==
  /\ task["smart"].pc = "start"
  /\ task["main"].pc # "start"
  /\ GetSmartBatch

\* runSmartBatch after the selection: return when it is empty or on a dry
\* run, else enter the loop; a rejected getSmartBatch is rethrown by the
\* outer catch.  showBatchPreview prints the selection, or the error, and
\* returns.
SmartBatchSelected ==
  /\ task["smart"].pc = "start"
  /\ bpc \in {"selected", "rejected"}
  /\ task' = [task EXCEPT !["smart"] =
                IF program.kind = "preview"
                  THEN [@ EXCEPT !.pc = "done"]
                ELSE IF bpc = "rejected"
                  THEN [@ EXCEPT !.pc = "failed"]
                ELSE IF Len(batch.selectedDomains) = 0 \/ program.dryRun
                  THEN [@ EXCEPT !.pc = "done"]
                  ELSE [@ EXCEPT !.pc = "loop", !.method = CalledBySmartBatch,
                                 !.targets = [j \in 1..Len(batch.selectedDomains) |->
                                                batch.selectedDomains[j].domain]]]
  /\ UNCHANGED <<program, auditLog, store>>
  /\ UNCHANGED batchVars
  /\ UNCHANGED runVars

\* one iteration of a batch loop up to its await: the tester method is
\* called and calls runAudit; a call of a method the tester does not have
\* throws, and the catch clause of the smart batch loop records the failure
CallTarget(t) ==
  /\ task[t].pc = "loop"
  /\ task[t].i < Len(task[t].targets)
  /\ \E d \in {task[t].targets[task[t].i + 1]} :
       IF task[t].method \in TesterMethods
         THEN /\ auditLog' = Append(auditLog, [by |-> t, url |-> d, scores |-> Pending])
              /\ task' = [task EXCEPT ![t] = [@ EXCEPT !.pc = "audit"]]
         ELSE /\ task' = [task EXCEPT ![t] =
                            [@ EXCEPT !.i = @ + 1,
                                      !.failureCount = @ + 1,
                                      !.results = ErrorRecord(@, d, NotAFunction)]]
              /\ UNCHANGED auditLog
  /\ UNCHANGED <<program, store>>
  /\ UNCHANGED batchVars
  /\ UNCHANGED runVars

\* runAudit resolves; testWebsite saves and returns, the loop pushes the
\* result and counts it
AuditSettles(t) ==
  /\ task[t].pc = "audit"
  /\ \E scores \in AuditOutcomes, writes \in WriteOutcomes :
     \E tw \in {TestWebsite(task[t].targets[task[t].i + 1], scores, writes)} :
       /\ auditLog' = [auditLog EXCEPT ![LastCallOf(t)].scores = scores]
       /\ store' = store \o tw.rows
       /\ task' = [task EXCEPT ![t] =
                     [@ EXCEPT !.pc = "loop",
                               !.i = @ + 1,
                               !.results = Append(@, tw.result),
                               !.successCount = IF Failed(tw.result) THEN @ ELSE @ + 1,
                               !.failureCount = IF Failed(tw.result) THEN @ + 1 ELSE @]]
  /\ UNCHANGED program
  /\ UNCHANGED batchVars
  /\ UNCHANGED runVars

\* the loop is over: the summary is printed and the results returned
LoopEnds(t) ==
  /\ task[t].pc = "loop"
  /\ task[t].i = Len(task[t].targets)
  /\ task' = [task EXCEPT ![t] = [@ EXCEPT !.pc = "done"]]
  /\ UNCHANGED <<program, auditLog, store>>
  /\ UNCHANGED batchVars
  /\ UNCHANGED runVars

vars == <<batchVars, runVars, progVars>>

NextBatch == GetDomainsByCategory \/ GetSmartBatch

SpecBatch == InitBatch /\ [][NextBatch]_vars

\* one top-level runAudit call on a fresh LighthouseRunner (or on one whose
\* lighthouse module is already loaded); no batch selection is involved
Init ==
  /\ allDomains = <<>>
  /\ dbResults = <<>>
  /\ batchSize = 1
  /\ percentages = DefaultPercentages
  /\ bpc = "ready"
  /\ categorized = EmptyLists
  /\ batch = NoBatch
  /\ RunIdle
  /\ ProgIdle

Next ==
  \/ RunAudit
  \/ LaunchOk
  \/ LaunchFails
  \/ InitLighthouseOk
  \/ InitLighthouseFails
  \/ ChromeExits
  \/ TimerFires
  \/ TimerRejects
  \/ AuditResolves
  \/ AuditRejects
  \/ RaceCatch
  \/ CatchCleanup
  \/ Retry
  \/ FinalFailure
  \/ FinallyReturn

Spec == Init /\ [][Next]_vars

\* the event loop runs every pending continuation and timer callback
FairSpec == Spec /\ WF_vars(Next)

\* a program run that executes a batch
NextRun ==
  \/ MainStarts
  \/ AwaitGetSmartBatch
  \/ SmartBatchSelected
  \/ \E t \in Tasks : CallTarget(t)
  \/ \E t \in Tasks : AuditSettles(t)
  \/ \E t \in Tasks : LoopEnds(t)

SpecRun == InitRun /\ [][NextRun]_vars

\* ------------------------------------------------- properties of the batch
Selected == batch.selectedDomains

\* entries of the categorizer's result that are free of cooldown
EligibleCount ==
  SumOver([c \in Categories |-> Len(Filter(categorized[c], NoCooldown))], Categories)

\* C4: the selection is no longer than batchSize and no longer than the
\* number of eligible (cooldown-free) targets.
C4_AllocationBound ==
  bpc = "selected" =>
    /\ Len(Selected) <= batchSize
    /\ Len(Selected) <= EligibleCount

\* the allocation adds up to more than batchSize and the final slice cuts
C4_Witness ==
  /\ bpc = "selected"
  /\ SumOver(batch.allocation, Categories) > batchSize
  /\ Len(Selected) = batchSize
  /\ EligibleCount > batchSize

\* C5: no domain occurs twice in the selection.
C5_NoDuplicates ==
  bpc = "selected" =>
    \A i, j \in 1..Len(Selected) : i # j => Selected[i].domain # Selected[j].domain

\* draws from two categories, and the fill step entered (selection short)
C5_Witness ==
  /\ bpc = "selected"
  /\ Len(Selected) >= 2
  /\ Len(Selected) < batchSize
  /\ \E i, j \in 1..Len(Selected) : Selected[i].category # Selected[j].category

\* C6: no selected target has a nonzero cooldown (recomputed from its row).
C6_CooldownExclusion ==
  bpc = "selected" =>
    \A i \in 1..Len(Selected) :
      Selected[i].domain \in DOMAIN dbResults =>
        CooldownOf(dbResults[Selected[i].domain]) = 0

\* a target in cooldown was left out although the batch had room for it
C6_Witness ==
  /\ bpc = "selected"
  /\ Len(Selected) >= 1
  /\ Len(Selected) < batchSize
  /\ \E d \in DOMAIN dbResults : CooldownOf(dbResults[d]) > 0

\* places (category, index) at which domain d occurs in the categorizer's result
PlacesOf(d) ==
  {<<c, k>> \in Categories \X (1..Len(allDomains)) :
     k <= Len(categorized[c]) /\ categorized[c][k].domain = d}

\* C7: every registry target is in exactly one of the five category lists;
\* a target without history is never_tested with cooldown 0.
C7_CategoryPartition ==
  bpc = "categorized" =>
    \A i \in 1..Len(allDomains) :
      /\ Cardinality(PlacesOf(allDomains[i])) = 1
      /\ allDomains[i] \notin DOMAIN dbResults =>
           \E k \in 1..Len(categorized["never_tested"]) :
             /\ categorized["never_tested"][k].domain = allDomains[i]
             /\ categorized["never_tested"][k].cooldownDaysRemaining = 0

\* a registry with untested targets and with rows of two different categories
C7_Witness ==
  /\ bpc = "categorized"
  /\ Len(categorized["never_tested"]) >= 1
  /\ Len(categorized["failed_only"]) >= 1
  /\ Len(categorized["old_success"]) >= 1

NotNeverTested(e) == e.category # "never_tested"

OtherCategories == Categories \ {"never_tested"}

\* C8 as stated: with the default percentages and at least batchSize
\* available never_tested targets, every selected target is never_tested.
C8_PriorityExhaustion ==
  (bpc = "selected" /\ percentages = DefaultPercentages
     /\ batch.availableCounts["never_tested"] >= batchSize) =>
    \A i \in 1..Len(Selected) : Selected[i].category = "never_tested"

\* C8 amended: in that case the selection has batchSize targets, and those
\* that are not never_tested number exactly the other categories' shares
\* min(floor(percentage * batchSize / 100), available).
C8_NeverTestedShare ==
  (bpc = "selected" /\ percentages = DefaultPercentages
     /\ batch.availableCounts["never_tested"] >= batchSize) =>
    /\ Len(Selected) = batchSize
    /\ Len(Filter(Selected, NotNeverTested)) =
         SumOver([c \in OtherCategories |->
                    Min((DefaultPercentages[c] * batchSize) \div 100,
                        batch.availableCounts[c])],
                 OtherCategories)

\* ten available never_tested targets, batchSize 10, and a selected target
\* of another category
C8_Witness ==
  /\ bpc = "selected"
  /\ percentages = DefaultPercentages
  /\ batch.availableCounts["never_tested"] >= batchSize
  /\ Len(Filter(Selected, NotNeverTested)) >= 1

\* the allocation before redistribution, from the returned counts
InitialCount(c) ==
  Min(RequestedCount(percentages[c], batchSize), batch.availableCounts[c])

ExtraSlots(c) == batch.allocation[c] - InitialCount(c)

\* C9: a category receives extra slots in the redistribution pass only if
\* every higher-priority category has been allocated its whole pool.
C9_PriorityRedistribution ==
  bpc = "selected" =>
    \A i, j \in 1..Len(CategoryOrder) :
      (i < j /\ ExtraSlots(CategoryOrder[j]) > 0) =>
        batch.allocation[CategoryOrder[i]] = batch.availableCounts[CategoryOrder[i]]

\* C10: the redistribution hands out at most batchSize - allocated extra
\* slots; with percentages summing to at most 100 the allocation sums to at
\* most batchSize.
C10_AllocationSum ==
  (bpc = "selected" /\ SumOver(percentages, Categories) <= 100) =>
    /\ SumOver([c \in Categories |-> ExtraSlots(c)], Categories)
         <= batchSize - SumOver([c \in Categories |-> InitialCount(c)], Categories)
    /\ SumOver(batch.allocation, Categories) <= batchSize

\* --------------------------------------------------- properties of runAudit
LiveChildren == {p \in Attempts : proc[p] = "alive"}

\* C1: when the top-level runAudit call has returned, no child process
\* launched by any of its attempts is alive.
C1_NoProcessOutlivesCall ==
  pc = "done" => LiveChildren = {}

IsScoreSet(r) ==
  /\ DOMAIN r = ScoreNames
  /\ \A n \in ScoreNames : r[n] \in 0..100

IsFailureResult(r) ==
  /\ DOMAIN r = ScoreNames \cup {"error", "errorMessage"}
  /\ \A n \in ScoreNames : r[n] = 0
  /\ r.error = TRUE
  /\ r.errorMessage.len <= 100

\* C2: the call ends by returning a ScoreSet (five integer scores, no error
\* flag) or a FailureResult (zeros, error = true, message of at most 100
\* characters); no step of the call lets an exception escape.
C2_ResultShape ==
  /\ pc \in {"idle", "launch", "init", "race", "raceCatch", "catch", "decide",
             "finally", "done"}
  /\ pc = "done" => (IsScoreSet(result) \/ IsFailureResult(result))

\* a final failure whose message was longer than 100 characters
C2_Witness ==
  /\ pc = "done"
  /\ IsFailureResult(result)
  /\ error.len > 100
  /\ result.errorMessage.len = 100

\* every attempt of the call was ended by the timeout
AllAttemptsTimedOut ==
  \A k \in 1..attempts : settledBy[k] = "timeout"

\* C3: the call always returns; when the audit hung in every attempt it
\* returns a FailureResult after exactly 3 attempts, and termination of the
\* child was invoked in each of them.
C3_EngineTerminates ==
  /\ <>(pc = "done")
  /\ [](pc = "done" /\ AllAttemptsTimedOut =>
          /\ IsFailureResult(result)
          /\ attempts = 3
          /\ \A k \in 1..3 : killLog[k] >= 1)

\* a finished call all of whose three attempts timed out
C3_Witness ==
  /\ pc = "done"
  /\ AllAttemptsTimedOut
  /\ attempts = 3
  /\ \A k \in 1..3 : proc[k] = "dead"

\* ---------------------------------------------------------------- C11
\* C11: after a failed attempt (the call stands at the retry decision) the
\* next step launches another attempt exactly when the error matches the
\* retryable vocabulary and fewer than 2 retries have been made; otherwise
\* the step yields the terminal failure result and no attempt is added.  An
\* invalid-result error never adds an attempt, and no call makes more than
\* 3 attempts.
C11_RetryDecision ==
  /\ [][pc = "decide" =>
          /\ (attempts' = attempts + 1 /\ pc' = "launch")
               <=> (IsRetryable(error) /\ retryCount < 2)
          /\ ~(IsRetryable(error) /\ retryCount < 2)
               => (attempts' = attempts /\ pc' # "launch" /\ IsFailureResult(result'))
          /\ error = InvalidResultError => attempts' = attempts]_vars
  /\ [](attempts <= 3)

\* three attempts were made and the call ended with the failure result
C11_Witness ==
  /\ pc = "done"
  /\ attempts = 3
  /\ retryCount = 0
  /\ IsFailureResult(result)
  /\ IsRetryable(error)

C13_OneChildAtATime ==
  /\ Cardinality(LiveChildren) <= 1
  /\ pc = "launch" => LiveChildren = {}

\* a later attempt's child runs after the earlier attempt's child has ended
C13_Witness ==
  /\ attempts = 2
  /\ proc[1] = "dead"
  /\ proc[2] = "alive"

\* ------------------------------------------------ properties of a program run
\* the task that runs the batch of the program
BatchTask == IF program.kind \in SmartEntry THEN "smart" ELSE "main"

\* the runAudit calls made by task t, in order
CallsBy(t) ==
  LET MadeByT(c) == c.by = t
  IN SelectSeq(auditLog, MadeByT)

\* tasks with a runAudit call in flight
InFlight == {t \in Tasks : task[t].pc = "audit"}

\* C14: when the batch loop is over, the runAudit calls the batch runner
\* made are one per target of the selection, in selection order, and the
\* result recorded for a target is what testWebsite returns for that call's
\* outcome.
C14_OneAuditPerTarget ==
  task[BatchTask].pc = "done" =>
    /\ Len(CallsBy(BatchTask)) = Len(task[BatchTask].targets)
    /\ Len(task[BatchTask].results) = Len(task[BatchTask].targets)
    /\ \A j \in 1..Len(task[BatchTask].targets) :
         /\ CallsBy(BatchTask)[j].url = task[BatchTask].targets[j]
         /\ \E writes \in WriteOutcomes :
              task[BatchTask].results[j] =
                TestWebsite(task[BatchTask].targets[j], CallsBy(BatchTask)[j].scores,
                            writes).result

\* ---------------------------------------------------------------- C15
\* C15: runSmartBatch goes through its whole selection whatever happens to
\* a target: when it has returned from a real (not dry) run, results holds
\* one entry per selected target, in selection order, and successCount +
\* failureCount is the length of the selection.
C15_BatchCompletes ==
  (program.kind = "smart" /\ ~program.dryRun /\ task["smart"].pc = "done") =>
    /\ task["smart"].i = Len(Selected)
    /\ Len(task["smart"].results) = Len(Selected)
    /\ \A j \in 1..Len(Selected) : task["smart"].results[j].url = Selected[j].domain
    /\ task["smart"].successCount + task["smart"].failureCount = Len(Selected)

\* a batch of two targets is over, a target of it having failed
C15_Witness ==
  /\ program.kind = "smart"
  /\ ~program.dryRun
  /\ task["smart"].pc = "done"
  /\ Len(Selected) = 2
  /\ Failed(task["smart"].results[1])
  /\ Len(task["smart"].results) = 2

\* ---------------------------------------------------------------- C16
\* C16: in a program run that executes a smart, daily or hourly batch, at
\* most one runAudit call is in flight at any instant.
C16_Sequential == Cardinality(InFlight) <= 1

\* an audit is in flight while the smart batch loop is under way
C16_Witness ==
  /\ program.kind = "smart"
  /\ InFlight = {"main"}
  /\ task["smart"].pc = "loop"
  /\ task["smart"].i = 1

\* ---------------------------------------------------------------- C17
\* what the categorizer returns when every registry target is defaulted
AllNeverTested ==
  [c \in Categories |->
     IF c = "never_tested"
       THEN [j \in 1..Len(allDomains) |->
               [domain |-> allDomains[j], category |-> "never_tested",
                cooldownDaysRemaining |-> 0]]
       ELSE <<>>]

\* C17: when the history cannot be read, a finished getDomainsByCategory
\* call has not rejected and has returned every registry target as
\* never_tested with cooldown 0.
C17_StoreUnreadableDefaults ==
  (dbResults = Unreadable /\ bpc # "ready") =>
    (bpc # "rejected" /\ categorized = AllNeverTested)

\* ---------------------------------------------------------------- C18
\* the categorizer has returned its lists
Categorized == bpc \in {"categorized", "selected"}

\* the entry the categorizer built for domain d is in the list of category c
ListedIn(d, c) ==
  \E j \in 1..Len(categorized[c]) :
    categorized[c][j].domain = d /\ categorized[c][j].category = c

\* a row whose successes are all older than 30 days
SuccessOlderThan30Days(row) ==
  row.success_count > 0 /\ row.last_success_age > 30 * HoursPerDay

\* C18: a tested target is listed as failed_only when it has no success,
\* and also when it has successes the most recent of which is older than
\* 30 days.
C18_FailedOnly ==
  (Categorized /\ dbResults # Unreadable) =>
    \A d \in DOMAIN dbResults :
      (dbResults[d].success_count = 0 \/ SuccessOlderThan30Days(dbResults[d]))
        => ListedIn(d, "failed_only")

\* ---------------------------------------------------------------- C19
\* the entries the categorizer returned, over all lists
Entries == UNION {Range(categorized[c]) : c \in Categories}

\* the most recent failure of the entry's domain is less than a day old
FailedWithinADay(e) ==
  /\ e.domain \in DOMAIN dbResults
  /\ dbResults[e.domain].last_failure_age # NoDate
  /\ dbResults[e.domain].last_failure_age < 1 * HoursPerDay

\* the entry's domain has no recorded failure, or its most recent failure
\* is at least 7 days old
NoFailureWithin7Days(e) ==
  \/ e.domain \notin DOMAIN dbResults
  \/ dbResults[e.domain].last_failure_age = NoDate
  \/ dbResults[e.domain].last_failure_age >= 7 * HoursPerDay

\* C19: the cooldown of a returned target is above 0 when its most recent
\* failure is less than a day old, and 0 when it has no recorded failure or
\* its most recent failure is at least 7 days old.
C19_CooldownWindow ==
  (Categorized /\ dbResults # Unreadable) =>
    \A e \in Entries :
      /\ FailedWithinADay(e) => e.cooldownDaysRemaining > 0
      /\ NoFailureWithin7Days(e) => e.cooldownDaysRemaining = 0

\* a target that failed within the day and one that failed exactly 7 days
\* ago have been categorized
C19_Witness ==
  /\ Categorized
  /\ dbResults # Unreadable
  /\ \E e \in Entries : FailedWithinADay(e) /\ e.cooldownDaysRemaining = 1
  /\ \E e \in Entries :
       /\ e.domain \in DOMAIN dbResults
       /\ dbResults[e.domain].last_failure_age = 7 * HoursPerDay
       /\ e.cooldownDaysRemaining = 0

\* ---------------------------------------------------------------- C20
\* domains with at least 3 successes, the most recent within 7 days, and a
\* failure less than a day old
HealthyButJustFailed ==
  {d \in DOMAIN dbResults :
     /\ dbResults[d].success_count >= 3
     /\ dbResults[d].last_success_age <= 7 * HoursPerDay
     /\ dbResults[d].last_failure_age # NoDate
     /\ dbResults[d].last_failure_age < 1 * HoursPerDay}

\* C20: a target with at least 3 successes, the most recent within 7 days,
\* and a failure less than a day old is returned as reliable_success with
\* cooldown 1, and no selection contains it.
C20_CategoryAndCooldownIndependent ==
  (Categorized /\ dbResults # Unreadable) =>
    \A d \in HealthyButJustFailed :
      /\ \E e \in Range(categorized["reliable_success"]) :
           e.domain = d /\ e.category = "reliable_success" /\ e.cooldownDaysRemaining = 1
      /\ \A j \in 1..Len(Selected) : Selected[j].domain # d

\* a batch with room left was selected from a registry holding such a target
C20_Witness ==
  /\ bpc = "selected"
  /\ dbResults # Unreadable
  /\ HealthyButJustFailed # {}
  /\ Len(Selected) >= 1
  /\ Len(Selected) < batchSize


\* ---------------------------------------------------------------- C21
\* the eligible (cooldown-free) entries the categorizer returned
Eligible == {e \in Entries : NoCooldown(e)}

\* C21: with a readable history getSmartBatch does not fail, the selection
\* has min(batchSize, number of eligible targets) entries, and when
\* batchSize is at least that number every eligible target is in the
\* selection exactly once.
C21_SelectionSize ==
  (dbResults # Unreadable /\ bpc # "ready" /\ bpc # "categorized") =>
    /\ bpc = "selected"
    /\ Len(Selected) = Min(batchSize, EligibleCount)
    /\ batchSize >= EligibleCount =>
         \A e \in Eligible :
           Cardinality({j \in 1..Len(Selected) : Selected[j].domain = e.domain}) = 1

\* a batch larger than the eligible universe, part of the registry being
\* in cooldown
C21_Witness ==
  /\ bpc = "selected"
  /\ dbResults # Unreadable
  /\ batchSize > EligibleCount
  /\ EligibleCount >= 2
  /\ Len(allDomains) > EligibleCount
  /\ Len(Selected) = EligibleCount


\* ---------------------------------------------------------------- C22
\* C22: one retry delay is waited between each pair of consecutive
\* attempts and none else; a call whose last attempt succeeded after k
\* failed ones returns that attempt's scores, without error flag, after
\* exactly k delays.
C22_RetryThenSuccess ==
  /\ attempts >= 1 => Len(delays) = attempts - 1
  /\ (pc = "done" /\ ~IsFailureResult(result)) =>
       /\ IsScoreSet(result)
       /\ result \in {ScoresOf(r) : r \in AuditResults}
       /\ "error" \notin DOMAIN result
       /\ settledBy[attempts] = "audit"
       /\ \A k \in 1..(attempts - 1) : settledBy[k] # "none"

\* "Target closed" on attempts 1 and 2, success on attempt 3
C22_Witness ==
  /\ pc = "done"
  /\ attempts = 3
  /\ IsScoreSet(result)
  /\ delays = <<retryDelay * 3, retryDelay * 3>>


\* ---------------------------------------------------------------- C23
\* C23: an attempt whose launch failed has no child and never ran the
\* audit, and while fewer than maxRetries retries have been made its retry
\* decision starts another attempt, whatever the launch error.
C23_LaunchFailureRetried ==
  [][\A k \in Attempts :
       (attempts = k /\ settledBy[k] = "launch") =>
         /\ proc[k] = "none"
         /\ (pc = "decide" /\ retryCount < maxRetries)
              => (attempts' = k + 1 /\ pc' = "launch")]_vars


\* ---------------------------------------------------------------- C24
\* a target-closed or session-closed error
ClosedClass(e) ==
  \/ {"TargetCloseError", "Target closed", "Session closed"} \cap e.includes # {}
  \/ e.name = "TargetCloseError"

\* a network or connection error
NetworkClass(e) ==
  {"Connection refused", "net::ERR_", "net::", "ERR_CONNECTION", "ERR_TIMED_OUT",
   "ERR_NETWORK_CHANGED", "ECONNREFUSED", "ENOTFOUND", "ETIMEDOUT"} \cap e.includes # {}

\* the delay by error class: triple for closed, quadruple for network, base
\* for every other retryable error
DelayByClass(e) ==
  IF NetworkClass(e) THEN retryDelay * 4
  ELSE IF ClosedClass(e) THEN retryDelay * 3
  ELSE retryDelay

\* C24: the delay waited before a retry is three times the base delay for
\* target-closed and session-closed errors, four times for network and
\* connection errors, and the base delay for every other retryable error.
C24_DelayByErrorClass ==
  [][(pc = "decide" /\ attempts' = attempts + 1) =>
       delays' = Append(delays, DelayByClass(error))]_vars


\* ---------------------------------------------------------------- C25
\* the days of the weekly cycle on which testDailyBatch tests domain x
DaysOf(x) ==
  {d \in 0..(DaysPerWeek - 1) : x \in Range(TodaysDomains(allDomains, d))}

\* C25: the batches testDailyBatch chooses for dayOfWeek 0..6 partition the
\* registry: every domain is in the batch of exactly one day, once, the
\* batches hold nothing else, and none is longer than ceil(N/7); the batch
\* a daily run goes through is the one of its day.
C25_WeeklyPartition ==
  /\ \A x \in Range(allDomains) : Cardinality(DaysOf(x)) = 1
  /\ \A d \in 0..(DaysPerWeek - 1) :
       /\ Range(TodaysDomains(allDomains, d)) \subseteq Range(allDomains)
       /\ Cardinality(Range(TodaysDomains(allDomains, d)))
            = Len(TodaysDomains(allDomains, d))
       /\ Len(TodaysDomains(allDomains, d)) * DaysPerWeek
            < Len(allDomains) + DaysPerWeek
  /\ (program.kind = "daily" /\ task["main"].pc \notin {"idle", "start"}) =>
       task["main"].targets = TodaysDomains(allDomains, program.index)

\* the run of day 3 over a registry of 8 domains has tested the last two
C25_Witness ==
  /\ program.kind = "daily"
  /\ program.index = 3
  /\ Len(allDomains) = MaxDailyRegistry
  /\ task["main"].pc = "done"
  /\ Len(task["main"].results) = Len(TodaysDomains(allDomains, 3))
  /\ Len(task["main"].results) >= 1


\* ---------------------------------------------------------------- C26
\* C26: once the timeout callback has run while the audit call is still
\* pending, the attempt ends by the rejection with the timeout error, which
\* is retryable, whatever the audit call does afterwards.
C26_TimeoutAlwaysWins ==
  [][(pc = "race" /\ timer = "fired" /\ pc' # "race") =>
       /\ pc' = "raceCatch"
       /\ error' = TimeoutError
       /\ "timeout" \in error'.includes
       /\ IsRetryable(error')]_vars


\* ---------------------------------------------------------------- C27
\* the row as it reads `hours` later, no new failure recorded in between
Aged(row, hours) == [row EXCEPT !.last_failure_age = @ + hours]

\* C27: a cooldown of N > 0 days is over N days later when no new failure
\* is recorded, and the cooldown never grows as the failure ages.
C27_CooldownCountsDown ==
  (Categorized /\ dbResults # Unreadable) =>
    \A e \in Entries :
      (e.domain \in DOMAIN dbResults /\ e.cooldownDaysRemaining > 0) =>
        /\ CooldownOf(Aged(dbResults[e.domain], e.cooldownDaysRemaining * HoursPerDay)) = 0
        /\ \A h \in 0..(7 * HoursPerDay) :
             CooldownOf(Aged(dbResults[e.domain], h)) <= e.cooldownDaysRemaining


\* ---------------------------------------------------------------- C28
\* the rows a step appended to the store
Appended == SubSeq(store', Len(store) + 1, Len(store'))

\* the result a step pushed to the results of task t
Pushed(t) == task'[t].results[Len(task'[t].results)]

\* C28: when a testWebsite call returns, at most one record has been
\* appended for it, and the tally agrees with the record: the target is
\* counted as a success exactly when a score record was appended and as a
\* failure exactly when a failure record was.
C28_TallyMatchesStore ==
  [][\A t \in Tasks :
       (task[t].pc = "audit" /\ task'[t].pc = "loop") =>
         /\ Len(Appended) <= 1
         /\ Len(Appended) = 1 =>
              /\ (task'[t].successCount = task[t].successCount + 1)
                   <=> (Appended[1].table = "lighthouse_scores")
              /\ (task'[t].failureCount = task[t].failureCount + 1)
                   <=> (Appended[1].table = "lighthouse_failed_tests")
              /\ Appended[1].url = Pushed(t).url]_vars


\* ---------------------------------------------------------------- C29
\* C29: in a program run that is a dry run or a preview of the smart batch
\* no runAudit call is made and no record is appended to the store.
C29_DryRunLaunchesNothing ==
  ((program.kind = "smart" /\ program.dryRun) \/ program.kind = "preview") =>
    (auditLog = <<>> /\ store = <<>>)


\* ---------------------------------------------------------------- C30
\* C30: the finally step of a frame whose child is alive and not marked
\* killed ends that child: chrome.kill() ends it, or, when chrome.kill()
\* throws, the SIGTERM sent to its pid as a last resort does.
C30_LastResortSigterm ==
  [][(pc = "finally" /\ chrome # NoChrome /\ ~chromeKilled
        /\ proc[chrome] = "alive")
       => (proc'[chrome] = "dead" /\ killLog'[chrome] >= killLog[chrome] + 1)]_vars

====
